---- MODULE Spec2Model ----
(***************************************************************************)
(* Model of colour/colorimetry/tristimulus.py:                             *)
(*   lagrange_coefficients_ASTME202211, tristimulus_weighting_factors_     *)
(*   ASTME202211, spectral_to_XYZ and wavelength_to_XYZ, with the two      *)
(*   module-level caches.                                                  *)
(*                                                                         *)
(* Representation.  A Python string is a sequence of one-character         *)
(* strings, so that lower() and ', '.join() are computed.  A float is an   *)
(* exact rational: a matrix is a record [den, rows] whose entries are the  *)
(* integer numerators over the common denominator den; den = 0 stands for  *)
(* the non-finite result of a division by zero (numpy inf/nan).  Arrays    *)
(* are 0-based in the code and 1-based sequences here (see At).            *)
(***************************************************************************)
EXTENDS Integers, Sequences, FiniteSets, TLC

VARIABLES
    twfCache,     \* _TRISTIMULUS_WEIGHTING_FACTORS_CACHE
    licaCache,    \* _LAGRANGE_INTERPOLATING_COEFFICIENTS_CACHE
    last,         \* the most recent completed call: arguments and outcome
    ncalls,       \* number of completed calls
    succ,         \* (cmfs.name, illuminant.name, str(shape)) of every
                  \* weighting-factor call that returned so far
    threads,      \* concurrent callers: position and locals of each
    wlCall,       \* a wavelength_to_XYZ call: arguments and outcome
    xyzCall,      \* a spectral_to_XYZ call: arguments and outcome
    buildRun      \* a weighting-table build observed before line 290

vars == <<twfCache, licaCache, last, ncalls, succ, threads, wlCall, xyzCall,
          buildRun>>

(***************************************************************************)
(* Bounds of the model.                                                    *)
(***************************************************************************)
MaxCalls == 2
MaxInterval == 4

(***************************************************************************)
(* Strings.                                                                *)
(***************************************************************************)
UpperChars == <<"A", "B", "C", "D", "E", "F", "G", "H", "I", "J", "K", "L", "M",
                "N", "O", "P", "Q", "R", "S", "T", "U", "V", "W", "X", "Y", "Z">>
LowerChars == <<"a", "b", "c", "d", "e", "f", "g", "h", "i", "j", "k", "l", "m",
                "n", "o", "p", "q", "r", "s", "t", "u", "v", "w", "x", "y", "z">>

\* str.lower() on one character
LowerOf ==
    [c \in {UpperChars[i] : i \in DOMAIN UpperChars} |->
        LowerChars[CHOOSE i \in DOMAIN UpperChars : UpperChars[i] = c]]

LowerChar(c) == IF c \in DOMAIN LowerOf THEN LowerOf[c] ELSE c

\* str.lower()
Lower(s) == [i \in DOMAIN s |-> LowerChar(s[i])]

Digits == <<"0", "1", "2", "3", "4", "5", "6", "7", "8", "9">>

RECURSIVE NatStr(_)
\* str(n) for a non-negative integer
NatStr(n) ==
    IF n < 10 THEN <<Digits[n + 1]>>
    ELSE NatStr(n \div 10) \o <<Digits[(n % 10) + 1]>>

\* str(n) for an integer
IntStr(n) == IF n < 0 THEN <<"-">> \o NatStr(-n) ELSE NatStr(n)

RECURSIVE Join(_)
\* ', '.join(parts)
Join(parts) ==
    IF Len(parts) = 0 THEN <<>>
    ELSE IF Len(parts) = 1 THEN parts[1]
    ELSE parts[1] \o <<",", " ">> \o Join(Tail(parts))

\* str(shape) of a SpectralShape
ShapeStr(shape) ==
    <<"(">> \o Join(<<IntStr(shape.start), IntStr(shape.end),
                      IntStr(shape.interval)>>) \o <<")">>

(***************************************************************************)
(* CaseInsensitiveMapping: a dictionary whose keys compare without regard  *)
(* to letter case.  None is the module-level initial value of both caches. *)
(***************************************************************************)
None == [created |-> FALSE, map |-> <<>>]

\* CaseInsensitiveMapping()
EmptyMapping == [created |-> TRUE, map |-> <<>>]

\* the key a CaseInsensitiveMapping files an item under
MapKey(name) == Lower(name)

\* name in mapping
Contains(mapping, name) == MapKey(name) \in DOMAIN mapping.map

\* mapping[name]
GetItem(mapping, name) == mapping.map[MapKey(name)]

\* mapping[name] = value
SetItem(mapping, name, value) ==
    [mapping EXCEPT !.map =
        [k \in (DOMAIN mapping.map) \cup {MapKey(name)} |->
            IF k = MapKey(name) THEN value ELSE mapping.map[k]]]

(***************************************************************************)
(* Arrays.                                                                 *)
(***************************************************************************)
\* numpy index normalisation: a negative index counts from the end
NormIdx(i, n) == IF i < 0 THEN i + n ELSE i

\* whether a[i] is inside an axis of length n
InRange(i, n) == NormIdx(i, n) >= 0 /\ NormIdx(i, n) < n

\* a[i] for a 0-based index
At(a, i) == a[NormIdx(i, Len(a)) + 1]

RECURSIVE SumSeq(_)
SumSeq(s) == IF Len(s) = 0 THEN 0 ELSE Head(s) + SumSeq(Tail(s))

RECURSIVE Product(_, _)
\* product of f[i] for i in the finite set S
Product(f, S) ==
    IF S = {} THEN 1
    ELSE LET i == CHOOSE x \in S : TRUE IN f[i] * Product(f, S \ {i})

RECURSIVE Power(_, _)
Power(b, e) == IF e = 0 THEN 1 ELSE b * Power(b, e - 1)

RECURSIVE Factorial(_)
Factorial(n) == IF n = 0 THEN 1 ELSE n * Factorial(n - 1)

(***************************************************************************)
(* lagrange_coefficients(r, n) of colour.algebra, at r = p / k: the n      *)
(* basis coefficients on the nodes 0 .. n-1,                               *)
(*     L_j = prod_{i # j} (r - i) / (j - i),                               *)
(* as integer numerators over the denominator k^(n-1) * (n-1)!.            *)
(***************************************************************************)
LagrangeDen(k, n) == Power(k, n - 1) * Factorial(n - 1)

LagrangeRow(p, k, n) ==
    [jj \in 1..n |->
        LET j == jj - 1
            others == (0..(n - 1)) \ {j}
            num == Product([i \in others |-> p - i * k], others)
            den == Product([i \in others |-> j - i], others)
        IN  (num * Factorial(n - 1)) \div den]

\* the rational matrix a completed computation of lines 118-125 yields
LagrangeMatrix(interval, interval_type) ==
    LET inner == Lower(interval_type) = <<"i", "n", "n", "e", "r">>
        d == IF inner THEN 4 ELSE 3
    IN  [den |-> LagrangeDen(interval, d),
         rows |-> [m \in 1..(interval - 1) |->
                     LagrangeRow(IF inner THEN m + interval ELSE m,
                                 interval, d)]]

\* name_lica
LicaName(interval, interval_type) ==
    Join(<<IntStr(interval), interval_type>>)

NoMatrix == [den |-> 0, rows |-> <<>>]

(***************************************************************************)
(* lagrange_coefficients_ASTME202211 as a function of the cache: the new   *)
(* cache, the outcome, the value returned and whether it was computed.     *)
(***************************************************************************)
\* faulty variant: the membership test of lines 115-116 left out
LagrangeCallNoLookup(cache, interval, interval_type) ==
    LET c1 == IF cache = None THEN EmptyMapping ELSE cache
        name == LicaName(interval, interval_type)
    IN  IF interval = 0
        THEN [cache |-> c1, outcome |-> "ZeroDivisionError", hit |-> FALSE,
              value |-> NoMatrix]
        ELSE LET lica == LagrangeMatrix(interval, interval_type)
             IN  [cache |-> SetItem(c1, name, lica), outcome |-> "ok",
                  hit |-> FALSE, value |-> lica]

LagrangeCall(cache, interval, interval_type) ==
    LET c1 == IF cache = None THEN EmptyMapping ELSE cache
        name == LicaName(interval, interval_type)
    IN  IF Contains(c1, name)
        THEN [cache |-> c1, outcome |-> "ok", hit |-> TRUE,
              value |-> GetItem(c1, name)]
        ELSE IF interval = 0
        THEN [cache |-> c1, outcome |-> "ZeroDivisionError", hit |-> FALSE,
              value |-> NoMatrix]
        ELSE LET lica == LagrangeMatrix(interval, interval_type)
             IN  [cache |-> SetItem(c1, name, lica), outcome |-> "ok",
                  hit |-> FALSE, value |-> lica]

(***************************************************************************)
(* The weighting-factor table build, lines 244-290.                        *)
(***************************************************************************)
\* len(a[::k])
Count(n, k) == (n + k - 1) \div k

Max(a, b) == IF a >= b THEN a ELSE b

\* numpy broadcasting of the (nS, 1) and (nY, 3) operands of line 247
Broadcastable(nS, nY) == nS = nY \/ nS = 1 \/ nY = 1

\* W = S[::k, np.newaxis] * Y[::k, :]
BaseW(S, Y, k) ==
    LET nS == Count(Len(S), k)
        nY == Count(Len(Y), k)
    IN  [r \in 1..Max(nS, nY) |->
            [c \in 1..3 |->
                At(S, IF nS = 1 THEN 0 ELSE (r - 1) * k)
                * At(Y, IF nY = 1 THEN 0 ELSE (r - 1) * k)[c]]]

\* faulty variant: the remainder of the last, incomplete interval forgotten
LastIntervalFirstNoRemainder(w_c, k, r_c) == w_c - 1 - r_c

\* w_lif, line 259
LastIntervalFirst(w_c, k, r_c) == w_c - ((w_c - 1) % k) - 1 - r_c

(***************************************************************************)
(* Each execution of an accumulation statement W[row, i] += coef * S[w] *  *)
(* Y[w, i] of the loops of lines 265-288 is a slot: the row written, the   *)
(* sample index w read and the coefficient used (matrix m, entry ci, cj).  *)
(* The slots are the same for the three channels i.                        *)
(***************************************************************************)
\* lines 267-269
FirstSlots(r_c) ==
    { [ph |-> "first", row |-> k, w |-> j + 1, m |-> "c_c",
       ci |-> j, cj |-> k] : j \in 0..(r_c - 1), k \in 0..2 }

\* lines 272-275
LastSlots(r_c, i_cm, w_lif) ==
    { [ph |-> "last", row |-> k, w |-> j + w_lif, m |-> "c_c",
       ci |-> r_c - j - 1, cj |-> i_cm - k] :
        j \in 0..(r_c - 1), k \in (i_cm - 2)..i_cm }

\* lines 278-284
InterSlots(i_c, r_c) ==
    { [ph |-> "inter", row |-> j + t, w |-> (r_c + 1) * (j + 1) + 1 + k,
       m |-> "c_b", ci |-> k, cj |-> t] :
        j \in 0..(i_c - 4), k \in 0..(r_c - 1), t \in 0..3 }

\* lines 287-288
TailSlots(w_c, k, i_cm) ==
    { [ph |-> "tail", row |-> i_cm, w |-> j, m |-> "one",
       ci |-> 0, cj |-> 0] : j \in (w_c - ((w_c - 1) % k))..(w_c - 1) }

Slots(w_c, k, i_c, r_c) ==
    FirstSlots(r_c)
    \cup LastSlots(r_c, i_c - 1, LastIntervalFirst(w_c, k, r_c))
    \cup InterSlots(i_c, r_c)
    \cup TailSlots(w_c, k, i_c - 1)

\* whether the coefficient a slot reads exists in its matrix
CoefInRange(sl, c_c, c_b) ==
    LET mat == IF sl.m = "c_c" THEN c_c ELSE c_b
    IN  sl.m = "one"
        \/ (/\ InRange(sl.ci, Len(mat.rows))
            /\ InRange(sl.cj, Len(At(mat.rows, sl.ci))))

\* whether a slot's statement runs without an IndexError
SlotOk(sl, S, Y, i_c, c_c, c_b) ==
    /\ InRange(sl.row, i_c)
    /\ InRange(sl.w, Len(S))
    /\ InRange(sl.w, Len(Y))
    /\ CoefInRange(sl, c_c, c_b)

\* the coefficient of a slot as a numerator over c_c.den * c_b.den
SlotCoef(sl, c_c, c_b) ==
    IF sl.m = "c_c" THEN At(At(c_c.rows, sl.ci), sl.cj) * c_b.den
    ELSE IF sl.m = "c_b" THEN At(At(c_b.rows, sl.ci), sl.cj) * c_c.den
    ELSE c_c.den * c_b.den

RECURSIVE SumSet(_, _)
\* sum of f[x] for x in the finite set T
SumSet(f, T) ==
    IF T = {} THEN 0
    ELSE LET x == CHOOSE y \in T : TRUE IN f[x] + SumSet(f, T \ {x})

\* W after the loops, as numerators over c_c.den * c_b.den
Accumulate(S, Y, k, c_c, c_b) ==
    LET base == BaseW(S, Y, k)
        i_c == Len(base)
        r_c == Len(c_b.rows)
        sl == Slots(Len(Y), k, i_c, r_c)
    IN  [r \in 1..i_c |->
            [c \in 1..3 |->
                LET mine == {x \in sl : NormIdx(x.row, i_c) = r - 1}
                IN  c_c.den * c_b.den * base[r][c]
                    + SumSet([x \in mine |->
                                SlotCoef(x, c_c, c_b) * At(S, x.w)
                                * At(Y, x.w)[c]], mine)]]

\* np.sum(W, axis=0)[1]
NormalisingColumn(W) == SumSeq([r \in 1..Len(W) |-> W[r][2]])

\* faulty variant: the table scaled by the sum of its first column
NormaliseByFirstColumn(W) ==
    [den |-> SumSeq([r \in 1..Len(W) |-> W[r][1]]),
     rows |-> [r \in 1..Len(W) |-> [c \in 1..3 |-> 100 * W[r][c]]]]

\* W *= 100 / np.sum(W, axis=0)[1], line 290
Normalise(W) ==
    [den |-> NormalisingColumn(W),
     rows |-> [r \in 1..Len(W) |-> [c \in 1..3 |-> 100 * W[r][c]]]]

\* the name of the boundary and inner interval types, lines 250 and 252
BoundaryType == <<"b", "o", "u", "n", "d", "a", "r", "y">>
InnerType == <<"i", "n", "n", "e", "r">>

\* faulty variant: the shape left out of the key
TwfNameNoShape(cmfs, illuminant, shape) ==
    Join(<<cmfs.name, illuminant.name>>)

\* name_twf, line 240
TwfName(cmfs, illuminant, shape) ==
    Join(<<cmfs.name, illuminant.name, ShapeStr(shape)>>)

(***************************************************************************)
(* tristimulus_weighting_factors_ASTME202211 as a function of the two      *)
(* caches: the new caches, the outcome, the value returned and whether it  *)
(* came from the cache.                                                    *)
(***************************************************************************)
\* the two interval tests, lines 229-234
IntervalsOk(cmfs, illuminant) ==
    cmfs.interval = 1 /\ illuminant.interval = 1

(***************************************************************************)
(* The callers' arguments.                                                 *)
(*   A colour matching functions object: its name, its shape.interval and  *)
(*   its values (one <<x_bar, y_bar, z_bar>> row per wavelength).          *)
(*   An illuminant: its name, its shape.interval and its values.           *)
(***************************************************************************)
CmfsA == [name |-> <<"a">>, interval |-> 1,
          values |-> << <<1, 0, 1>>, <<2, 1, 3>>, <<3, 2, 2>>, <<2, 3, 0>>,
                        <<1, 2, 0>>, <<1, 1, 0>>, <<0, 1, 0>> >>]
CmfsUpperA == [name |-> <<"A">>, interval |-> 1,
          values |-> << <<0, 1, 2>>, <<1, 1, 3>>, <<2, 2, 1>>, <<3, 3, 1>>,
                        <<2, 2, 0>>, <<1, 2, 0>>, <<1, 1, 0>>, <<1, 0, 0>> >>]
CmfsCoarse == [name |-> <<"a">>, interval |-> 2,
          values |-> << <<1, 0, 1>>, <<3, 2, 2>>, <<1, 2, 0>>, <<0, 1, 0>> >>]
CmfsAB == [name |-> <<"a", ",", " ", "b">>, interval |-> 1,
          values |-> << <<1, 1, 1>>, <<2, 1, 2>>, <<2, 2, 2>>, <<1, 3, 1>>,
                        <<1, 2, 1>>, <<0, 1, 0>>, <<0, 1, 0>> >>]
CmfsSet == {CmfsA, CmfsUpperA, CmfsCoarse, CmfsAB}

IllB == [name |-> <<"b">>, interval |-> 1,
         values |-> <<1, 2, 3, 3, 2, 2, 1, 1>>]
IllCoarse == [name |-> <<"b">>, interval |-> 5, values |-> <<1, 2>>]
IllDarkBB == [name |-> <<"b", ",", " ", "b">>, interval |-> 1,
              values |-> <<0, 0, 0, 0, 0, 0, 0>>]
IlluminantSet == {IllB, IllCoarse, IllDarkBB}

ShapeSet == {[start |-> 0, end |-> 7, interval |-> k] : k \in 1..MaxInterval}

IntervalSet == 0..MaxInterval
IntervalTypeSet == {InnerType, BoundaryType, <<"I", "n", "n", "e", "r">>}

\* lines 255-290: the loops and the normalisation, given the operands and
\* the two coefficient matrices
BuildTable(S, Y, k, c_c, c_b) ==
    LET i_c == Len(BaseW(S, Y, k))
        r_c == Len(c_b.rows)
    IN  IF \E sl \in Slots(Len(Y), k, i_c, r_c) :
                ~SlotOk(sl, S, Y, i_c, c_c, c_b)
        THEN [outcome |-> "IndexError", value |-> NoMatrix]
        ELSE [outcome |-> "ok",
              value |-> Normalise(Accumulate(S, Y, k, c_c, c_b))]

\* BuildTable is a pure function of its operands: its results on the
\* callers' arguments, with the coefficient matrices a computation yields,
\* are tabulated once
BuildMemo ==
    [a \in {x \in {<<i.values, c.values, s.interval>> :
                        i \in IlluminantSet, c \in CmfsSet, s \in ShapeSet} :
                Broadcastable(Count(Len(x[1]), x[3]),
                              Count(Len(x[2]), x[3]))} |->
        BuildTable(a[1], a[2], a[3], LagrangeMatrix(a[3], BoundaryType),
                   LagrangeMatrix(a[3], InnerType))]

Build(S, Y, k, c_c, c_b) ==
    IF /\ <<S, Y, k>> \in DOMAIN BuildMemo
       /\ c_c = LagrangeMatrix(k, BoundaryType)
       /\ c_b = LagrangeMatrix(k, InnerType)
    THEN BuildMemo[<<S, Y, k>>]
    ELSE BuildTable(S, Y, k, c_c, c_b)

\* faulty variant: W entered in the cache as soon as it exists (line 247), before
\* the loops that can fail
TwfBuildStoreFirst(t1, lica, name, S, Y, k) ==
    IF ~Broadcastable(Count(Len(S), k), Count(Len(Y), k))
    THEN [twf |-> t1, lica |-> lica, outcome |-> "BroadcastError",
          hit |-> FALSE, value |-> NoMatrix]
    ELSE
    LET lc == LagrangeCall(lica, k, BoundaryType)
        lb == LagrangeCall(lc.cache, k, InnerType)
        b == Build(S, Y, k, lc.value, lb.value)
        early == SetItem(t1, name, [den |-> 1, rows |-> BaseW(S, Y, k)])
    IN  IF b.outcome # "ok"
        THEN [twf |-> early, lica |-> lb.cache, outcome |-> b.outcome,
              hit |-> FALSE, value |-> NoMatrix]
        ELSE [twf |-> SetItem(t1, name, b.value), lica |-> lb.cache,
              outcome |-> "ok", hit |-> FALSE, value |-> b.value]

\* lines 244-294: the build on a cache miss; t1 is the created cache
TwfBuild(t1, lica, name, S, Y, k) ==
    LET fail(l, e) == [twf |-> t1, lica |-> l, outcome |-> e,
                       hit |-> FALSE, value |-> NoMatrix]
    IN  IF ~Broadcastable(Count(Len(S), k), Count(Len(Y), k))
        THEN fail(lica, "BroadcastError")
        ELSE
        LET lc == LagrangeCall(lica, k, BoundaryType)
            lb == LagrangeCall(lc.cache, k, InnerType)
            b == Build(S, Y, k, lc.value, lb.value)
        IN  IF b.outcome # "ok"
            THEN fail(lb.cache, b.outcome)
            ELSE [twf |-> SetItem(t1, name, b.value), lica |-> lb.cache,
                  outcome |-> "ok", hit |-> FALSE, value |-> b.value]

\* faulty variant: the cache consulted before the interval tests
TwfCallLookupFirst(twf, lica, cmfs, illuminant, shape) ==
    LET t1 == IF twf = None THEN EmptyMapping ELSE twf
        name == TwfName(cmfs, illuminant, shape)
    IN  IF Contains(t1, name)
        THEN [twf |-> t1, lica |-> lica, outcome |-> "ok", hit |-> TRUE,
              value |-> GetItem(t1, name)]
        ELSE IF ~IntervalsOk(cmfs, illuminant)
        THEN [twf |-> t1, lica |-> lica, outcome |-> "IntervalMismatch",
              hit |-> FALSE, value |-> NoMatrix]
        ELSE TwfBuild(t1, lica, name, illuminant.values, cmfs.values,
                      shape.interval)

TwfCall(twf, lica, cmfs, illuminant, shape) ==
    LET t1 == IF twf = None THEN EmptyMapping ELSE twf
        name == TwfName(cmfs, illuminant, shape)
    IN  IF ~IntervalsOk(cmfs, illuminant)
        THEN [twf |-> twf, lica |-> lica, outcome |-> "IntervalMismatch",
              hit |-> FALSE, value |-> NoMatrix]
        ELSE IF Contains(t1, name)
        THEN [twf |-> t1, lica |-> lica, outcome |-> "ok", hit |-> TRUE,
              value |-> GetItem(t1, name)]
        ELSE TwfBuild(t1, lica, name, illuminant.values, cmfs.values,
                      shape.interval)

\* the triple the weighting-factor cache is said to be keyed by
Triple(cmfs, illuminant, shape) ==
    <<cmfs.name, illuminant.name, ShapeStr(shape)>>

(***************************************************************************)
(* Sequential callers: one call at a time, each run to completion.         *)
(***************************************************************************)
NoCall == [op |-> "none", args |-> <<>>, name |-> <<>>, outcome |-> "none",
           hit |-> FALSE, value |-> NoMatrix]

Idle == "idle"

Init ==
    /\ twfCache = None
    /\ licaCache = None
    /\ last = NoCall
    /\ ncalls = 0
    /\ succ = {}
    /\ threads = Idle
    /\ wlCall = Idle
    /\ xyzCall = Idle
    /\ buildRun = Idle

CallLagrange ==
    /\ ncalls < MaxCalls
    /\ \E interval \in IntervalSet, interval_type \in IntervalTypeSet :
        \E r \in {LagrangeCall(licaCache, interval, interval_type)} :
            /\ licaCache' = r.cache
            /\ last' = [op |-> "lagrange",
                        args |-> <<interval, interval_type>>,
                        name |-> LicaName(interval, interval_type),
                        outcome |-> r.outcome, hit |-> r.hit,
                        value |-> r.value]
    /\ ncalls' = ncalls + 1
    /\ UNCHANGED <<twfCache, succ, threads, wlCall, xyzCall, buildRun>>

CallTwf ==
    /\ ncalls < MaxCalls
    /\ \E cmfs \in CmfsSet, illuminant \in IlluminantSet, shape \in ShapeSet :
        \E r \in {TwfCall(twfCache, licaCache, cmfs, illuminant, shape)} :
            /\ twfCache' = r.twf
            /\ licaCache' = r.lica
            /\ last' = [op |-> "twf",
                        args |-> <<cmfs, illuminant, shape>>,
                        name |-> TwfName(cmfs, illuminant, shape),
                        outcome |-> r.outcome, hit |-> r.hit,
                        value |-> r.value]
            /\ succ' = IF r.outcome = "ok"
                       THEN succ \cup {Triple(cmfs, illuminant, shape)}
                       ELSE succ
    /\ ncalls' = ncalls + 1
    /\ UNCHANGED <<threads, wlCall, xyzCall, buildRun>>

Next == CallLagrange \/ CallTwf

Spec == Init /\ [][Next]_vars

(***************************************************************************)
(* Properties of the sequential callers.                                   *)
(***************************************************************************)
\* this step is a completed call of the named function
Completes(op) == ncalls' = ncalls + 1 /\ last'.op = op

\* the cache key string of a triple, compared without regard to case
FoldedKey(t) == Lower(Join(t))

\* C1: a weighting-factor call with cmfs.shape.interval # 1 or
\* illuminant.shape.interval # 1 fails with the interval-mismatch error in
\* every cache state, also when its key is cached, and leaves both caches
\* as they were.
C1_IntervalMismatchFirst ==
    [][(/\ Completes("twf")
        /\ (last'.args[1].interval # 1 \/ last'.args[2].interval # 1))
       => (/\ last'.outcome = "IntervalMismatch"
           /\ twfCache' = twfCache
           /\ licaCache' = licaCache)]_vars

\* C1 witness: the failing call's key is in the cache
C1_Witness ==
    /\ last.op = "twf"
    /\ last.outcome = "IntervalMismatch"
    /\ last.args[1].interval # 1
    /\ Contains(twfCache, last.name)

\* C2 as stated: a call with unit-interval operands returns the memoized
\* table exactly when an earlier call that returned had an equal triple
\* (cmfs.name, illuminant.name, str(shape)).
C2_HitIffEqualTriple ==
    [][(/\ Completes("twf")
        /\ last'.args[1].interval = 1 /\ last'.args[2].interval = 1)
       => (last'.hit <=>
             Triple(last'.args[1], last'.args[2], last'.args[3]) \in succ)]_vars

\* C2 amended: a call with unit-interval operands returns the memoized
\* table, unchanged and without rebuilding, exactly when an earlier call
\* that returned had a triple whose ', '-joined string is equal to this
\* call's without regard to letter case.
C2_HitIffEqualFoldedKey ==
    [][(/\ Completes("twf")
        /\ last'.args[1].interval = 1 /\ last'.args[2].interval = 1)
       => LET key == FoldedKey(Triple(last'.args[1], last'.args[2],
                                      last'.args[3]))
          IN  /\ last'.hit <=> \E t \in succ : FoldedKey(t) = key
              /\ last'.hit =>
                    /\ last'.outcome = "ok"
                    /\ key \in DOMAIN twfCache.map
                    /\ last'.value = twfCache.map[key]
                    /\ twfCache' = twfCache
                    /\ licaCache' = licaCache]_vars

\* C2 witness: a call served the table of a call with another triple
C2_Witness ==
    /\ last.op = "twf"
    /\ last.hit
    /\ \E t \in succ :
        /\ t # Triple(last.args[1], last.args[2], last.args[3])
        /\ FoldedKey(t) =
             FoldedKey(Triple(last.args[1], last.args[2], last.args[3]))

\* C3: an entry of the Lagrange coefficient cache, once written, is never
\* removed or replaced by a call of either function, and a later
\* lagrange_coefficients_ASTME202211 call with that key returns the stored
\* matrix without computing it.
C3_LagrangeWriteOnce ==
    [][/\ \A k \in DOMAIN licaCache.map :
            /\ k \in DOMAIN licaCache'.map
            /\ licaCache'.map[k] = licaCache.map[k]
       /\ (/\ Completes("lagrange")
           /\ Lower(Join(<<IntStr(last'.args[1]), last'.args[2]>>))
                \in DOMAIN licaCache.map)
          => (/\ last'.outcome = "ok"
              /\ last'.hit
              /\ last'.value =
                   licaCache.map[Lower(Join(<<IntStr(last'.args[1]),
                                              last'.args[2]>>))]
              /\ licaCache' = licaCache)]_vars

\* C3 witness: a Lagrange call served an entry that a weighting-factor
\* build wrote
C3_Witness ==
    /\ last.op = "lagrange"
    /\ last.hit
    /\ twfCache.created
    /\ last.value.rows # <<>>

\* every (key, table) a completed build of the callers' arguments yields
CompleteTables ==
    {<<FoldedKey(Triple(a[1], a[2], a[3])),
       BuildMemo[<<a[2].values, a[1].values, a[3].interval>>].value>> :
        a \in {x \in CmfsSet \X IlluminantSet \X ShapeSet :
                /\ <<x[2].values, x[1].values, x[3].interval>>
                        \in DOMAIN BuildMemo
                /\ BuildMemo[<<x[2].values, x[1].values,
                               x[3].interval>>].outcome = "ok"}}

\* every (key, matrix) a completed computation yields
CompleteMatrices ==
    {<<Lower(Join(<<IntStr(a[1]), a[2]>>)), LagrangeMatrix(a[1], a[2])>> :
        a \in (IntervalSet \ {0}) \X IntervalTypeSet}

\* a weighting-factor cache entry is the table of a completed build
CompleteTable(key, table) == <<key, table>> \in CompleteTables

\* a coefficient cache entry is the matrix of a completed computation
CompleteMatrix(key, matrix) == <<key, matrix>> \in CompleteMatrices

\* C4: a call of either function that fails leaves no entry under its key
\* unless there was one before the call, and every entry of either cache
\* is a completely built result.
C4_FailedBuildNeverPoisons ==
    [][/\ (Completes("twf") /\ last'.outcome # "ok")
          => (Contains(twfCache', last'.name)
                => Contains(twfCache, last'.name))
       /\ (Completes("lagrange") /\ last'.outcome # "ok")
          => (Contains(licaCache', last'.name)
                => Contains(licaCache, last'.name))
       /\ \A k \in DOMAIN twfCache'.map :
            CompleteTable(k, twfCache'.map[k])
       /\ \A k \in DOMAIN licaCache'.map :
            CompleteMatrix(k, licaCache'.map[k])]_vars

\* C4 witness: a build failed in its loops, after the coefficient cache was
\* written, and its key has no entry
C4_Witness ==
    /\ last.op = "twf"
    /\ last.outcome = "IndexError"
    /\ DOMAIN licaCache.map # {}
    /\ ~Contains(twfCache, last.name)

\* the sum of the second column of a table, as a numerator over table.den
YColumnSum(table) == SumSeq([r \in 1..Len(table.rows) |-> table.rows[r][2]])

\* C5: the second column of every finite table returned by, or cached by,
\* tristimulus_weighting_factors_ASTME202211 sums to 100.
C5_YColumnSumsTo100 ==
    /\ (last.op = "twf" /\ last.outcome = "ok" /\ last.value.den # 0)
        => YColumnSum(last.value) = 100 * last.value.den
    /\ \A k \in DOMAIN twfCache.map :
        twfCache.map[k].den # 0
            => YColumnSum(twfCache.map[k]) = 100 * twfCache.map[k].den

\* C5 witness: a table built with boundary, inner and tail contributions
C5_Witness ==
    /\ last.op = "twf"
    /\ last.outcome = "ok"
    /\ ~last.hit
    /\ last.value.den # 0
    /\ last.args[3].interval = 2
    /\ Len(last.args[1].values) = 8
    /\ Contains(twfCache, last.name)

(***************************************************************************)
(* wavelength_to_XYZ, lines 461-508.                                       *)
(*   wavelength: [scalar, at]: a number (at has one element) or an array.  *)
(*   cmfs: [wavelengths, values], wavelengths ascending; cmfs.shape.start  *)
(*   and .end are its first and last wavelength.                           *)
(*   method: [kind, s]: None, a string s, or a value that is no string.    *)
(***************************************************************************)
MaxWavelength == 14

NoneMethod == [kind |-> "None", s |-> <<>>]
Str(chars) == [kind |-> "str", s |-> chars]
NotAString == [kind |-> "int", s |-> <<>>]

SeqMin(a) == CHOOSE x \in {a[i] : i \in DOMAIN a} :
                \A y \in {a[i] : i \in DOMAIN a} : x <= y
SeqMax(a) == CHOOSE x \in {a[i] : i \in DOMAIN a} :
                \A y \in {a[i] : i \in DOMAIN a} : x >= y

\* cmfs.shape.start, cmfs.shape.end
ShapeStart(cmfs) == SeqMin(cmfs.wavelengths)
ShapeEnd(cmfs) == SeqMax(cmfs.wavelengths)

\* faulty variant: the upper bound left unchecked
OutOfDomainBelowOnly(at, cmfs) == SeqMin(at) < ShapeStart(cmfs)

\* the test of lines 462-463
OutOfDomain(at, cmfs) ==
    SeqMin(at) < ShapeStart(cmfs) \/ SeqMax(at) > ShapeEnd(cmfs)

\* wavelength in cmfs: every requested wavelength is a wavelength of cmfs
InCmfs(at, cmfs) ==
    \A i \in DOMAIN at : \E n \in DOMAIN cmfs.wavelengths :
        cmfs.wavelengths[n] = at[i]

\* cmfs.get(wavelength): the stored row of each requested wavelength
CmfsGet(at, cmfs) ==
    [i \in DOMAIN at |->
        cmfs.values[CHOOSE n \in DOMAIN cmfs.wavelengths :
                        cmfs.wavelengths[n] = at[i]]]

\* cmfs.is_uniform(): the wavelengths are equally spaced
IsUniform(cmfs) ==
    \A n \in 2..(Len(cmfs.wavelengths) - 1) :
        cmfs.wavelengths[n + 1] - cmfs.wavelengths[n]
            = cmfs.wavelengths[2] - cmfs.wavelengths[1]

CubicSplineName ==
    <<"c", "u", "b", "i", "c", " ", "s", "p", "l", "i", "n", "e">>
LinearName == <<"l", "i", "n", "e", "a", "r">>
PchipName == <<"p", "c", "h", "i", "p">>
SpragueName == <<"s", "p", "r", "a", "g", "u", "e">>

\* faulty variant: the method name compared as given, without lower()
ResolveInterpolatorCaseSensitive(method, is_uniform) ==
    IF method.kind = "None"
    THEN IF is_uniform THEN [error |-> "none", interpolator |-> "Sprague"]
         ELSE [error |-> "none", interpolator |-> "CubicSpline"]
    ELSE IF method.kind = "str" /\ method.s = CubicSplineName
    THEN [error |-> "none", interpolator |-> "CubicSpline"]
    ELSE IF method.kind = "str" /\ method.s = LinearName
    THEN [error |-> "none", interpolator |-> "Linear"]
    ELSE IF method.kind = "str" /\ method.s = PchipName
    THEN [error |-> "none", interpolator |-> "Pchip"]
    ELSE IF method.kind = "str" /\ method.s = SpragueName
    THEN IF is_uniform THEN [error |-> "none", interpolator |-> "Sprague"]
         ELSE [error |-> "UnsupportedSpacing", interpolator |-> "none"]
    ELSE [error |-> "UndefinedMethod", interpolator |-> "none"]

\* lines 471-497: the interpolator class selected, or the error raised
ResolveInterpolator(method, is_uniform) ==
    LET m == IF method.kind = "str" THEN Str(Lower(method.s)) ELSE method
    IN  IF m.kind = "None"
        THEN IF is_uniform THEN [error |-> "none", interpolator |-> "Sprague"]
             ELSE [error |-> "none", interpolator |-> "CubicSpline"]
        ELSE IF m = Str(CubicSplineName)
        THEN [error |-> "none", interpolator |-> "CubicSpline"]
        ELSE IF m = Str(LinearName)
        THEN [error |-> "none", interpolator |-> "Linear"]
        ELSE IF m = Str(PchipName)
        THEN [error |-> "none", interpolator |-> "Pchip"]
        ELSE IF m = Str(SpragueName)
        THEN IF is_uniform
             THEN [error |-> "none", interpolator |-> "Sprague"]
             ELSE [error |-> "UnsupportedSpacing", interpolator |-> "none"]
        ELSE [error |-> "UndefinedMethod", interpolator |-> "none"]

\* lines 499-502: one interpolator of the selected class per channel,
\* each evaluated at every requested wavelength; the interpolators are
\* external, so a value is the record of what was evaluated
Interpolate(interpolator, at, cmfs) ==
    [i \in DOMAIN at |->
        [c \in 1..3 |->
            [interpolator |-> interpolator, channel |-> c, x |-> at[i]]]]

\* np.reshape(XYZ, np.asarray(wavelength).shape + (3,)), line 506
Reshape(XYZ, scalar) == IF scalar THEN XYZ[1] ELSE XYZ

NoWlResult == [outcome |-> "none", path |-> "none", interpolator |-> "none",
               built |-> 0, XYZ |-> <<>>]

WlError(e) == [outcome |-> e, path |-> "none", interpolator |-> "none",
               built |-> 0, XYZ |-> <<>>]

\* faulty variant: the interpolation method resolved before the grid test
WavelengthToXYZResolveFirst(wavelength, cmfs, method) ==
    LET sel == ResolveInterpolator(method, IsUniform(cmfs))
    IN  IF OutOfDomain(wavelength.at, cmfs) THEN WlError("DomainRangeError")
        ELSE IF sel.error # "none" THEN WlError(sel.error)
        ELSE IF ~InCmfs(wavelength.at, cmfs)
        THEN [outcome |-> "ok", path |-> "interpolate",
              interpolator |-> sel.interpolator, built |-> 3,
              XYZ |-> Reshape(Interpolate(sel.interpolator, wavelength.at,
                                          cmfs), wavelength.scalar)]
        ELSE [outcome |-> "ok", path |-> "lookup", interpolator |-> "none",
              built |-> 0,
              XYZ |-> Reshape(CmfsGet(wavelength.at, cmfs),
                              wavelength.scalar)]

WavelengthToXYZ(wavelength, cmfs, method) ==
    IF OutOfDomain(wavelength.at, cmfs) THEN WlError("DomainRangeError")
    ELSE IF ~InCmfs(wavelength.at, cmfs)
    THEN LET sel == ResolveInterpolator(method, IsUniform(cmfs))
         IN  IF sel.error # "none" THEN WlError(sel.error)
             ELSE [outcome |-> "ok", path |-> "interpolate",
                   interpolator |-> sel.interpolator, built |-> 3,
                   XYZ |-> Reshape(Interpolate(sel.interpolator,
                                               wavelength.at, cmfs),
                                   wavelength.scalar)]
    ELSE [outcome |-> "ok", path |-> "lookup", interpolator |-> "none",
          built |-> 0,
          XYZ |-> Reshape(CmfsGet(wavelength.at, cmfs), wavelength.scalar)]

\* the callers' arguments
CmfsUniform ==
    [wavelengths |-> <<2, 4, 6, 8, 10, 12>>,
     values |-> << <<1, 0, 5>>, <<2, 1, 7>>, <<3, 3, 4>>, <<5, 6, 1>>,
                   <<4, 4, 0>>, <<1, 1, 0>> >>]
CmfsNonUniform ==
    [wavelengths |-> <<2, 4, 8, 10, 13>>,
     values |-> << <<1, 0, 5>>, <<2, 1, 7>>, <<5, 6, 1>>, <<4, 4, 0>>,
                   <<2, 1, 0>> >>]
WlCmfsSet == {CmfsUniform, CmfsNonUniform}

WavelengthSet ==
    {[scalar |-> TRUE, at |-> <<w>>] : w \in 0..MaxWavelength}
    \cup {[scalar |-> FALSE, at |-> a] :
            a \in {<<4>>, <<2, 8>>, <<4, 5>>, <<12, 13>>, <<1, 4>>,
                   <<10, 4, 2>>}}

MethodSet ==
    {NoneMethod, NotAString,
     Str(LinearName), Str(<<"L", "i", "n", "e", "a", "r">>),
     Str(<<"C", "u", "b", "i", "c", " ", "S", "p", "l", "i", "n", "e">>),
     Str(<<"c", "u", "b", "i", "c", "_", "s", "p", "l", "i", "n", "e">>),
     Str(<<"P", "c", "h", "i", "p">>), Str(<<"P", "C", "H", "I", "P">>),
     Str(SpragueName), Str(<<"S", "p", "r", "a", "g", "u", "e">>),
     Str(<<"n", "e", "a", "r", "e", "s", "t">>)}

(***************************************************************************)
(* Callers of wavelength_to_XYZ: a call is made, then it returns or raises.*)
(***************************************************************************)
WlPending(wavelength, cmfs, method) ==
    [phase |-> "called", wavelength |-> wavelength, cmfs |-> cmfs,
     method |-> method, result |-> NoWlResult]

InitWl ==
    /\ twfCache = None
    /\ licaCache = None
    /\ last = NoCall
    /\ ncalls = 0
    /\ succ = {}
    /\ threads = Idle
    /\ xyzCall = Idle
    /\ buildRun = Idle
    /\ \E wavelength \in WavelengthSet, cmfs \in WlCmfsSet,
          method \in MethodSet :
            wlCall = WlPending(wavelength, cmfs, method)

WlReturn ==
    /\ wlCall.phase = "called"
    /\ wlCall' = [wlCall EXCEPT
                    !.phase = "returned",
                    !.result = WavelengthToXYZ(wlCall.wavelength,
                                               wlCall.cmfs, wlCall.method)]
    /\ UNCHANGED <<twfCache, licaCache, last, ncalls, succ, threads,
                   xyzCall, buildRun>>

WlCallNext ==
    /\ wlCall.phase = "returned"
    /\ \E wavelength \in WavelengthSet, cmfs \in WlCmfsSet,
          method \in MethodSet :
            wlCall' = WlPending(wavelength, cmfs, method)
    /\ UNCHANGED <<twfCache, licaCache, last, ncalls, succ, threads,
                   xyzCall, buildRun>>

NextWl == WlReturn \/ WlCallNext

SpecWl == InitWl /\ [][NextWl]_vars

\* the requested wavelengths of the call
Requested == {wlCall.wavelength.at[i] : i \in DOMAIN wlCall.wavelength.at}

\* the wavelengths of the call's cmfs
Grid == {wlCall.cmfs.wavelengths[n] : n \in DOMAIN wlCall.cmfs.wavelengths}

\* C6: wavelength_to_XYZ fails with the domain-range error whenever a
\* requested wavelength is below the first or above the last wavelength of
\* the cmfs, whatever the method, and never when all of them lie between
\* the two, the ends included.
C6_DomainCheckedFirst ==
    wlCall.phase = "returned" =>
        ((\E w \in Requested :
            (\A g \in Grid : w < g) \/ (\A g \in Grid : w > g))
         <=> wlCall.result.outcome = "DomainRangeError")

\* C6 witness: an array whose second wavelength is above the end raised the
\* domain-range error although the method is undefined
C6_Witness ==
    /\ wlCall.phase = "returned"
    /\ wlCall.result.outcome = "DomainRangeError"
    /\ wlCall.wavelength.at = <<12, 13>>
    /\ wlCall.cmfs = CmfsUniform
    /\ wlCall.method = Str(<<"n", "e", "a", "r", "e", "s", "t">>)

\* C7: when every requested wavelength is a wavelength of the cmfs, the
\* call returns the stored rows, builds no interpolator and raises
\* nothing, whatever the method and the spacing.
C7_GridPointReturnsStoredRow ==
    (wlCall.phase = "returned" /\ Requested \subseteq Grid) =>
        /\ wlCall.result.outcome = "ok"
        /\ wlCall.result.path = "lookup"
        /\ wlCall.result.built = 0
        /\ LET rows == IF wlCall.wavelength.scalar
                       THEN <<wlCall.result.XYZ>> ELSE wlCall.result.XYZ
           IN  /\ Len(rows) = Len(wlCall.wavelength.at)
               /\ \A i \in DOMAIN rows :
                    \E n \in DOMAIN wlCall.cmfs.wavelengths :
                        /\ wlCall.cmfs.wavelengths[n] = wlCall.wavelength.at[i]
                        /\ rows[i] = wlCall.cmfs.values[n]

\* C7 witness: a grid point of the non-uniform cmfs was looked up although
\* the method was 'sprague'
C7_Witness ==
    /\ wlCall.phase = "returned"
    /\ wlCall.wavelength = [scalar |-> TRUE, at |-> <<8>>]
    /\ wlCall.cmfs = CmfsNonUniform
    /\ wlCall.method = Str(SpragueName)
    /\ wlCall.result.XYZ = <<5, 6, 1>>

\* the interpolator the method names, if any
Named(method) ==
    IF method.kind # "str" THEN "none"
    ELSE IF Lower(method.s) = CubicSplineName THEN "CubicSpline"
    ELSE IF Lower(method.s) = LinearName THEN "Linear"
    ELSE IF Lower(method.s) = PchipName THEN "Pchip"
    ELSE IF Lower(method.s) = SpragueName THEN "Sprague"
    ELSE "none"

\* the wavelengths of the call's cmfs are equally spaced
EquallySpaced ==
    \E step \in 1..MaxWavelength :
        \A g \in Grid : (\E h \in Grid : h > g) => (g + step) \in Grid
                        /\ \A h \in Grid : ~(g < h /\ h < g + step)

\* C8: for in-domain wavelengths not all on the grid, method None selects
\* sprague on a uniform cmfs and cubic spline otherwise; the four names,
\* in any letter case, select the strategy named; 'sprague' on a
\* non-uniform cmfs fails with the unsupported-spacing error; any other
\* method fails with the undefined-method error; a failing call builds no
\* interpolator and returns nothing.
C8_MethodResolution ==
    (/\ wlCall.phase = "returned"
     /\ wlCall.result.outcome # "DomainRangeError"
     /\ ~(Requested \subseteq Grid)) =>
        LET named == Named(wlCall.method)
            res == wlCall.result
            selected(i) == /\ res.outcome = "ok"
                           /\ res.path = "interpolate"
                           /\ res.interpolator = i
                           /\ res.built = 3
            failed(e) == /\ res.outcome = e
                         /\ res.built = 0
                         /\ res.XYZ = <<>>
        IN  /\ wlCall.method.kind = "None" =>
                IF EquallySpaced THEN selected("Sprague")
                ELSE selected("CubicSpline")
            /\ (named \in {"CubicSpline", "Linear", "Pchip"})
                => selected(named)
            /\ named = "Sprague" =>
                IF EquallySpaced THEN selected("Sprague")
                ELSE failed("UnsupportedSpacing")
            /\ (wlCall.method.kind # "None" /\ named = "none")
                => failed("UndefinedMethod")

\* C8 witness: 'Cubic Spline', in mixed case, selected the cubic spline for
\* an off-grid wavelength
C8_Witness ==
    /\ wlCall.phase = "returned"
    /\ wlCall.wavelength = [scalar |-> TRUE, at |-> <<5>>]
    /\ wlCall.method =
        Str(<<"C", "u", "b", "i", "c", " ", "S", "p", "l", "i", "n", "e">>)
    /\ wlCall.result.interpolator = "CubicSpline"

(***************************************************************************)
(* spectral_to_XYZ, lines 345-371.                                         *)
(*   A spectral power distribution is [wavelengths, values] on an equally  *)
(*   spaced grid; the values of the spd argument are numerators over       *)
(*   SpdDen, so that values between 0 and 1 exist.  cmfs is [wavelengths,  *)
(*   values] with one <<x_bar, y_bar, z_bar>> row per wavelength.          *)
(***************************************************************************)
SpdDen == 2

NoIlluminant == [wavelengths |-> <<>>, values |-> <<>>]

\* x.shape: (start, end, interval)
SpdShape(x) ==
    [start |-> x.wavelengths[1],
     end |-> x.wavelengths[Len(x.wavelengths)],
     interval |-> IF Len(x.wavelengths) > 1
                  THEN x.wavelengths[2] - x.wavelengths[1] ELSE 1]

\* the wavelengths of a shape
ShapeRange(shape) ==
    [n \in 1..(((shape.end - shape.start) \div shape.interval) + 1) |->
        shape.start + (n - 1) * shape.interval]

\* x.clone().zeros(shape): the values of x on the wavelengths of shape,
\* zero where x has none
Zeros(x, shape) ==
    [wavelengths |-> ShapeRange(shape),
     values |-> [n \in DOMAIN ShapeRange(shape) |->
                    IF \E m \in DOMAIN x.wavelengths :
                            x.wavelengths[m] = ShapeRange(shape)[n]
                    THEN x.values[CHOOSE m \in DOMAIN x.wavelengths :
                                    x.wavelengths[m] = ShapeRange(shape)[n]]
                    ELSE 0]]

\* ones_spd(shape)
OnesSpd(shape) ==
    [wavelengths |-> ShapeRange(shape),
     values |-> [n \in DOMAIN ShapeRange(shape) |-> 1]]

\* lines 345-347: spd on the shape of cmfs
AlignedSpd(spd, cmfs) ==
    IF SpdShape(spd) # SpdShape(cmfs) THEN Zeros(spd, SpdShape(cmfs)) ELSE spd

\* lines 349-353: the illuminant on the shape of cmfs
AlignedIlluminant(illuminant, cmfs) ==
    IF illuminant = NoIlluminant THEN OnesSpd(SpdShape(cmfs))
    ELSE IF SpdShape(illuminant) # SpdShape(cmfs)
    THEN Zeros(illuminant, SpdShape(cmfs))
    ELSE illuminant

\* np.sum(spd * bar * illuminant) for channel c, lines 361-363
ProductSum(spd, cmfs, illuminant, c) ==
    SumSeq([n \in DOMAIN cmfs.values |->
                spd[n] * cmfs.values[n][c] * illuminant[n]])

\* faulty variant: the illuminant left out of the normalising sum
NormalisingSumNoIlluminant(cmfs, illuminant) ==
    SumSeq([n \in DOMAIN cmfs.values |-> cmfs.values[n][2]])

\* np.sum(y_bar * illuminant), line 365
NormalisingSum(cmfs, illuminant) ==
    SumSeq([n \in DOMAIN cmfs.values |-> cmfs.values[n][2] * illuminant[n]])

\* XYZ as the numerators num over the denominator den:
\* (100 / sum(y_bar * illuminant)) * sum(products), lines 365-369
SpectralToXYZ(spd, cmfs, illuminant) ==
    LET s == AlignedSpd(spd, cmfs).values
        i == AlignedIlluminant(illuminant, cmfs).values
    IN  [den |-> SpdDen * NormalisingSum(cmfs, i),
         num |-> [c \in 1..3 |-> 100 * ProductSum(s, cmfs, i, c)]]

\* the callers' arguments
XyzGrid == <<4, 5, 6>>

\* x_bar and z_bar never above y_bar
CmfsFlat == [wavelengths |-> XyzGrid,
             values |-> << <<1, 1, 0>>, <<1, 2, 1>>, <<0, 1, 1>> >>]
\* x_bar and z_bar above y_bar in places, as for the standard observers
CmfsObserver == [wavelengths |-> XyzGrid,
                 values |-> << <<1, 0, 5>>, <<0, 3, 1>>, <<4, 2, 0>> >>]
XyzCmfsSet == {CmfsFlat, CmfsObserver}

SpdSet ==
    {[wavelengths |-> XyzGrid, values |-> <<a, b, c>>] :
        a \in 0..SpdDen, b \in 0..SpdDen, c \in 0..SpdDen}
    \cup {[wavelengths |-> <<5, 6, 7>>, values |-> <<SpdDen, SpdDen, 1>>],
          [wavelengths |-> <<4, 6>>, values |-> <<1, SpdDen>>]}

XyzIlluminantSet ==
    {NoIlluminant,
     [wavelengths |-> XyzGrid, values |-> <<3, 2, 1>>],
     [wavelengths |-> <<3, 4, 5>>, values |-> <<2, 1, 2>>]}

NoXyz == [den |-> 0, num |-> <<>>]

XyzPending(spd, cmfs, illuminant) ==
    [phase |-> "called", spd |-> spd, cmfs |-> cmfs,
     illuminant |-> illuminant, XYZ |-> NoXyz]

InitXyz ==
    /\ twfCache = None
    /\ licaCache = None
    /\ last = NoCall
    /\ ncalls = 0
    /\ succ = {}
    /\ threads = Idle
    /\ wlCall = Idle
    /\ buildRun = Idle
    /\ \E spd \in SpdSet, cmfs \in XyzCmfsSet,
          illuminant \in XyzIlluminantSet :
            xyzCall = XyzPending(spd, cmfs, illuminant)

XyzReturn ==
    /\ xyzCall.phase = "called"
    /\ xyzCall' = [xyzCall EXCEPT
                    !.phase = "returned",
                    !.XYZ = SpectralToXYZ(xyzCall.spd, xyzCall.cmfs,
                                          xyzCall.illuminant)]
    /\ UNCHANGED <<twfCache, licaCache, last, ncalls, succ, threads, wlCall,
                   buildRun>>

XyzCallNext ==
    /\ xyzCall.phase = "returned"
    /\ \E spd \in SpdSet, cmfs \in XyzCmfsSet,
          illuminant \in XyzIlluminantSet :
            xyzCall' = XyzPending(spd, cmfs, illuminant)
    /\ UNCHANGED <<twfCache, licaCache, last, ncalls, succ, threads, wlCall,
                   buildRun>>

NextXyz == XyzReturn \/ XyzCallNext

SpecXyz == InitXyz /\ [][NextXyz]_vars

\* the call's arguments meet the claim's conditions: spd values in [0, 1],
\* cmfs and illuminant values non-negative, and a positive normalising sum
XyzInputsInRange ==
    /\ \A n \in DOMAIN xyzCall.spd.values :
        xyzCall.spd.values[n] >= 0 /\ xyzCall.spd.values[n] <= SpdDen
    /\ \A n \in DOMAIN xyzCall.cmfs.values : \A c \in 1..3 :
        xyzCall.cmfs.values[n][c] >= 0
    /\ \A n \in DOMAIN xyzCall.illuminant.values :
        xyzCall.illuminant.values[n] >= 0
    /\ xyzCall.XYZ.den > 0

NThreads == 2
MaxThreadCalls == 2

Threads == 1..NThreads

IdleThread ==
    [pc |-> "idle", op |-> "none", args |-> <<>>, calls |-> 0,
     outcome |-> "none", value |-> NoMatrix,
     isNone |-> FALSE, found |-> FALSE, W |-> NoMatrix,
     sub |-> "none", lpc |-> "none", li |-> 0, lt |-> <<>>,
     lIsNone |-> FALSE, lFound |-> FALSE, lval |-> NoMatrix,
     c_c |-> NoMatrix, c_b |-> NoMatrix]

\* the calls the threads make: keys that name their arguments uniquely
ThreadLagrangeArgs == {<<2, InnerType>>, <<2, BoundaryType>>, <<0, InnerType>>}
ThreadTwfArgs ==
    {<<CmfsA, IllB, [start |-> 0, end |-> 7, interval |-> 2]>>,
     <<CmfsAB, IllB, [start |-> 0, end |-> 7, interval |-> 2]>>}

InitConc ==
    /\ twfCache = None
    /\ licaCache = None
    /\ last = NoCall
    /\ ncalls = 0
    /\ succ = {}
    /\ threads = [t \in Threads |-> IdleThread]
    /\ wlCall = Idle
    /\ xyzCall = Idle
    /\ buildRun = Idle

Quiet == UNCHANGED <<last, ncalls, succ, wlCall, xyzCall, buildRun>>

\* the thread's call ends: it returns value or raises outcome
Finished(th, outcome, value) ==
    [th EXCEPT !.pc = "done", !.outcome = outcome, !.value = value,
               !.sub = "none", !.lpc = "none"]

\* the running lagrange call of the thread ends
LagrangeFinished(th, outcome, value) ==
    IF th.sub = "top" \/ outcome # "ok" THEN Finished(th, outcome, value)
    ELSE IF th.sub = "cc"
    THEN [th EXCEPT !.c_c = value, !.sub = "cb", !.lpc = "test",
                    !.lt = InnerType]
    ELSE [th EXCEPT !.c_b = value, !.sub = "none", !.lpc = "none",
                    !.pc = "loops"]

\* a thread calls lagrange_coefficients_ASTME202211
StartLagrange(t) ==
    /\ threads[t].pc \in {"idle", "done"}
    /\ threads[t].calls < MaxThreadCalls
    /\ \E a \in ThreadLagrangeArgs :
        threads' = [threads EXCEPT ![t] =
            [IdleThread EXCEPT !.pc = "lagrange", !.op = "lagrange",
                               !.args = a, !.calls = threads[t].calls + 1,
                               !.sub = "top", !.lpc = "test",
                               !.li = a[1], !.lt = a[2]]]
    /\ UNCHANGED <<twfCache, licaCache>>
    /\ Quiet

\* a thread calls tristimulus_weighting_factors_ASTME202211
StartTwf(t) ==
    /\ threads[t].pc \in {"idle", "done"}
    /\ threads[t].calls < MaxThreadCalls
    /\ \E a \in ThreadTwfArgs :
        threads' = [threads EXCEPT ![t] =
            [IdleThread EXCEPT !.pc = "check", !.op = "twf", !.args = a,
                               !.calls = threads[t].calls + 1]]
    /\ UNCHANGED <<twfCache, licaCache>>
    /\ Quiet

\* line 111: if _LAGRANGE_INTERPOLATING_COEFFICIENTS_CACHE is None
LTest(t) ==
    /\ threads[t].lpc = "test"
    /\ threads' = [threads EXCEPT ![t] =
            [@ EXCEPT !.lIsNone = (licaCache = None),
                      !.lpc = IF licaCache = None THEN "create"
                              ELSE "member"]]
    /\ UNCHANGED <<twfCache, licaCache>>
    /\ Quiet

\* line 112: the global is bound to a new, empty mapping
LCreate(t) ==
    /\ threads[t].lpc = "create"
    /\ licaCache' = EmptyMapping
    /\ threads' = [threads EXCEPT ![t] = [@ EXCEPT !.lpc = "member"]]
    /\ UNCHANGED twfCache
    /\ Quiet

\* line 115: if name_lica in the cache
LMember(t) ==
    /\ threads[t].lpc = "member"
    /\ LET f == Contains(licaCache, LicaName(threads[t].li, threads[t].lt))
       IN  threads' = [threads EXCEPT ![t] =
                [@ EXCEPT !.lFound = f,
                          !.lpc = IF f THEN "read" ELSE "build"]]
    /\ UNCHANGED <<twfCache, licaCache>>
    /\ Quiet

\* line 116: return cache[name_lica]
LRead(t) ==
    /\ threads[t].lpc = "read"
    /\ LET name == LicaName(threads[t].li, threads[t].lt)
       IN  threads' = [threads EXCEPT ![t] =
                IF Contains(licaCache, name)
                THEN LagrangeFinished(@, "ok", GetItem(licaCache, name))
                ELSE LagrangeFinished(@, "KeyError", NoMatrix)]
    /\ UNCHANGED <<twfCache, licaCache>>
    /\ Quiet

\* lines 118-125, the right-hand side: the matrix is computed
LBuild(t) ==
    /\ threads[t].lpc = "build"
    /\ threads' = [threads EXCEPT ![t] =
            IF threads[t].li = 0
            THEN LagrangeFinished(@, "ZeroDivisionError", NoMatrix)
            ELSE [@ EXCEPT !.lval = LagrangeMatrix(threads[t].li,
                                                   threads[t].lt),
                           !.lpc = "write"]]
    /\ UNCHANGED <<twfCache, licaCache>>
    /\ Quiet

\* lines 124-127: the matrix is stored under name_lica and returned
LWrite(t) ==
    /\ threads[t].lpc = "write"
    /\ licaCache' = SetItem(licaCache,
                            LicaName(threads[t].li, threads[t].lt),
                            threads[t].lval)
    /\ threads' = [threads EXCEPT ![t] =
            LagrangeFinished(@, "ok", threads[t].lval)]
    /\ UNCHANGED twfCache
    /\ Quiet

\* lines 229-234
TCheck(t) ==
    /\ threads[t].pc = "check"
    /\ threads' = [threads EXCEPT ![t] =
            IF IntervalsOk(threads[t].args[1], threads[t].args[2])
            THEN [@ EXCEPT !.pc = "test"]
            ELSE Finished(@, "IntervalMismatch", NoMatrix)]
    /\ UNCHANGED <<twfCache, licaCache>>
    /\ Quiet

\* line 237: if _TRISTIMULUS_WEIGHTING_FACTORS_CACHE is None
TTest(t) ==
    /\ threads[t].pc = "test"
    /\ threads' = [threads EXCEPT ![t] =
            [@ EXCEPT !.isNone = (twfCache = None),
                      !.pc = IF twfCache = None THEN "create" ELSE "member"]]
    /\ UNCHANGED <<twfCache, licaCache>>
    /\ Quiet

\* line 238
TCreate(t) ==
    /\ threads[t].pc = "create"
    /\ twfCache' = EmptyMapping
    /\ threads' = [threads EXCEPT ![t] = [@ EXCEPT !.pc = "member"]]
    /\ UNCHANGED licaCache
    /\ Quiet

\* line 241
TMember(t) ==
    /\ threads[t].pc = "member"
    /\ LET f == Contains(twfCache, TwfName(threads[t].args[1],
                                           threads[t].args[2],
                                           threads[t].args[3]))
       IN  threads' = [threads EXCEPT ![t] =
                [@ EXCEPT !.found = f, !.pc = IF f THEN "read" ELSE "base"]]
    /\ UNCHANGED <<twfCache, licaCache>>
    /\ Quiet

\* line 242
TRead(t) ==
    /\ threads[t].pc = "read"
    /\ LET name == TwfName(threads[t].args[1], threads[t].args[2],
                           threads[t].args[3])
       IN  threads' = [threads EXCEPT ![t] =
                IF Contains(twfCache, name)
                THEN Finished(@, "ok", GetItem(twfCache, name))
                ELSE Finished(@, "KeyError", NoMatrix)]
    /\ UNCHANGED <<twfCache, licaCache>>
    /\ Quiet

\* lines 244-250: W is formed and the call of line 250 begins
TBase(t) ==
    /\ threads[t].pc = "base"
    /\ LET S == threads[t].args[2].values
           Y == threads[t].args[1].values
           k == threads[t].args[3].interval
       IN  threads' = [threads EXCEPT ![t] =
                IF ~Broadcastable(Count(Len(S), k), Count(Len(Y), k))
                THEN Finished(@, "BroadcastError", NoMatrix)
                ELSE [@ EXCEPT !.pc = "lagrange", !.sub = "cc",
                               !.lpc = "test", !.li = k,
                               !.lt = BoundaryType]]
    /\ UNCHANGED <<twfCache, licaCache>>
    /\ Quiet

\* lines 255-290: the loops and the normalisation
TLoops(t) ==
    /\ threads[t].pc = "loops"
    /\ \E b \in {Build(threads[t].args[2].values, threads[t].args[1].values,
                       threads[t].args[3].interval, threads[t].c_c,
                       threads[t].c_b)} :
        threads' = [threads EXCEPT ![t] =
            IF b.outcome # "ok" THEN Finished(@, b.outcome, NoMatrix)
            ELSE [@ EXCEPT !.W = b.value, !.pc = "write"]]
    /\ UNCHANGED <<twfCache, licaCache>>
    /\ Quiet

\* lines 292-294
TWrite(t) ==
    /\ threads[t].pc = "write"
    /\ twfCache' = SetItem(twfCache,
                           TwfName(threads[t].args[1], threads[t].args[2],
                                   threads[t].args[3]),
                           threads[t].W)
    /\ threads' = [threads EXCEPT ![t] = Finished(@, "ok", threads[t].W)]
    /\ UNCHANGED licaCache
    /\ Quiet

NextConc ==
    \E t \in Threads :
        \/ StartLagrange(t) \/ StartTwf(t)
        \/ LTest(t) \/ LCreate(t) \/ LMember(t) \/ LRead(t)
        \/ LBuild(t) \/ LWrite(t)
        \/ TCheck(t) \/ TTest(t) \/ TCreate(t) \/ TMember(t) \/ TRead(t)
        \/ TBase(t) \/ TLoops(t) \/ TWrite(t)

SpecConc == InitConc /\ [][NextConc]_vars

\* what a call returns or raises when it runs alone from empty caches: the
\* pure function of its arguments
AloneResult(op, args) ==
    IF op = "lagrange"
    THEN LET r == LagrangeCall(None, args[1], args[2])
         IN  [outcome |-> r.outcome, value |-> r.value]
    ELSE LET r == TwfCall(None, None, args[1], args[2], args[3])
         IN  [outcome |-> r.outcome, value |-> r.value]

\* C10: under every interleaving of the callers' steps, every call ends as
\* it does when run alone: it returns the value that is the pure function
\* of its key, and observes no missing, partial or foreign value.
C10_RaceOnlyOnPerformance ==
    \A t \in Threads :
        threads[t].pc = "done" =>
            /\ threads[t].outcome = AloneResult(threads[t].op,
                                                threads[t].args).outcome
            /\ threads[t].value = AloneResult(threads[t].op,
                                              threads[t].args).value

(***************************************************************************)
(* The accumulation loops of the weighting-table build, lines 247-288,     *)
(* observed before the normalisation of line 290.  The operands are w_c    *)
(* samples at 1 nm: an illuminant of ones and a cmfs that is one at a      *)
(* probe index and zero elsewhere, so that W holds the weights the probe   *)
(* sample is given in each row.                                            *)
(***************************************************************************)
MaxSamples == 13

\* illuminant.values
OnesValues(w_c) == [n \in 1..w_c |-> 1]

\* cmfs.values
ImpulseValues(w_c, probe) ==
    [n \in 1..w_c |-> IF n - 1 = probe THEN <<1, 1, 1>> ELSE <<0, 0, 0>>]

\* lines 247-288: the statements the loops execute, whether they all run,
\* and W after them as numerators over den
BuildLoops(k, w_c, probe) ==
    LET S == OnesValues(w_c)
        Y == ImpulseValues(w_c, probe)
        c_c == LagrangeMatrix(k, BoundaryType)
        c_b == LagrangeMatrix(k, InnerType)
        i_c == Len(BaseW(S, Y, k))
        r_c == Len(c_b.rows)
        sl == Slots(Len(Y), k, i_c, r_c)
        ok == \A x \in sl : SlotOk(x, S, Y, i_c, c_c, c_b)
    IN  [outcome |-> IF ok THEN "ok" ELSE "IndexError",
         slots |-> sl,
         den |-> c_c.den * c_b.den,
         W |-> IF ok THEN Accumulate(S, Y, k, c_c, c_b) ELSE <<>>]

NoLoops == [outcome |-> "none", slots |-> {}, den |-> 0, W |-> <<>>]

BuildPending(k, w_c, probe) ==
    [phase |-> "called", k |-> k, w_c |-> w_c, probe |-> probe,
     result |-> NoLoops]

InitBuild ==
    /\ twfCache = None
    /\ licaCache = None
    /\ last = NoCall
    /\ ncalls = 0
    /\ succ = {}
    /\ threads = Idle
    /\ wlCall = Idle
    /\ xyzCall = Idle
    /\ \E k \in 1..MaxInterval, w_c \in 1..MaxSamples :
        \E probe \in 0..(w_c - 1) :
            buildRun = BuildPending(k, w_c, probe)

BuildReturn ==
    /\ buildRun.phase = "called"
    /\ buildRun' = [buildRun EXCEPT
                      !.phase = "returned",
                      !.result = BuildLoops(buildRun.k, buildRun.w_c,
                                            buildRun.probe)]
    /\ UNCHANGED <<twfCache, licaCache, last, ncalls, succ, threads, wlCall,
                   xyzCall>>

BuildCallNext ==
    /\ buildRun.phase = "returned"
    /\ \E k \in 1..MaxInterval, w_c \in 1..MaxSamples :
        \E probe \in 0..(w_c - 1) :
            buildRun' = BuildPending(k, w_c, probe)
    /\ UNCHANGED <<twfCache, licaCache, last, ncalls, succ, threads, wlCall,
                   xyzCall>>

NextBuild == BuildReturn \/ BuildCallNext

SpecBuild == InitBuild /\ [][NextBuild]_vars

\* the number of macro rows of the run: the multiples of k below w_c
MacroRows == ((buildRun.w_c - 1) \div buildRun.k) + 1

\* the index of the last macro sample of the run
LastMacro == (MacroRows - 1) * buildRun.k

\* the statements that the claim gives sample index w: none for a macro
\* sample (it is the base of its own row), the boundary coefficients into
\* rows 0..2 in the first interval, the boundary coefficients reversed into
\* the last 3 rows in the last complete interval, the inner coefficients
\* into 4 rows in an interior interval, one unweighted addition to the last
\* row beyond the last macro sample
ClaimedSlots(w) ==
    LET k == buildRun.k
        q == w \div k
        f == w % k
    IN  IF f = 0 THEN {}
        ELSE IF w > LastMacro
        THEN {[ph |-> "tail", row |-> MacroRows - 1, w |-> w, m |-> "one",
               ci |-> 0, cj |-> 0]}
        ELSE IF q = 0
        THEN {[ph |-> "first", row |-> r, w |-> w, m |-> "c_c",
               ci |-> f - 1, cj |-> r] : r \in 0..2}
        ELSE IF q = MacroRows - 2
        THEN {[ph |-> "last", row |-> r, w |-> w, m |-> "c_c",
               ci |-> k - 1 - f, cj |-> (MacroRows - 1) - r] :
                    r \in (MacroRows - 3)..(MacroRows - 1)}
        ELSE {[ph |-> "inter", row |-> (q - 1) + t, w |-> w, m |-> "c_b",
               ci |-> f - 1, cj |-> t] : t \in 0..3}

\* every index a statement uses lies inside its array, without wrapping
IndicesInside(sl) ==
    /\ sl.row \in 0..(MacroRows - 1)
    /\ sl.w \in 0..(buildRun.w_c - 1)
    /\ sl.m = "c_c" => (sl.ci \in 0..(buildRun.k - 2) /\ sl.cj \in 0..2)
    /\ sl.m = "c_b" => (sl.ci \in 0..(buildRun.k - 2) /\ sl.cj \in 0..3)

\* C11: for every interval k >= 2 and every sample count with at least 3
\* macro rows, the loops run without an index out of range, every sample
\* index 0..w_c-1 is used by exactly the statements of its own place (base,
\* first interval, last complete interval, interior interval, tail) and by
\* no other, a macro sample is the base of its own row, and the weights a
\* sample is spread with add up to one in each channel.
C11_EverySampleOnce ==
    (/\ buildRun.phase = "returned"
     /\ buildRun.k >= 2
     /\ MacroRows >= 3) =>
        /\ buildRun.result.outcome = "ok"
        /\ \A sl \in buildRun.result.slots : IndicesInside(sl)
        /\ \A w \in 0..(buildRun.w_c - 1) :
            {sl \in buildRun.result.slots : sl.w = w} = ClaimedSlots(w)
        /\ Len(buildRun.result.W) = MacroRows
        /\ (buildRun.probe % buildRun.k = 0) =>
            \A c \in 1..3 :
                buildRun.result.W[(buildRun.probe \div buildRun.k) + 1][c]
                    = buildRun.result.den
        /\ \A c \in 1..3 :
            SumSeq([r \in 1..MacroRows |-> buildRun.result.W[r][c]])
                = buildRun.result.den

\* C11 witness: a build with interval 3 over 12 samples, which has a first,
\* an interior and a last interval and two tail samples, probed inside the
\* interior interval
C11_Witness ==
    /\ buildRun.phase = "returned"
    /\ buildRun.k = 3
    /\ buildRun.w_c = 12
    /\ buildRun.probe = 5
    /\ buildRun.result.outcome = "ok"
    /\ \A p \in {"first", "inter", "last", "tail"} :
        \E sl \in buildRun.result.slots : sl.ph = p
    /\ \E r \in 1..4 : buildRun.result.W[r][1] < 0

====
